---- MODULE Spec2Model ----
(***************************************************************************)
(* KafkaPubSub (src/src/kafka-pubsub.ts): a PubSubEngine that multiplexes  *)
(* logical channels onto one Kafka topic.  The model covers the two lazily *)
(* created connection promises, publish / subscribe / unsubscribe / close, *)
(* the JSON codec and the consumer's 'data' handler with its EventEmitter  *)
(* fan-out.                                                                *)
(*                                                                         *)
(* JavaScript values are tagged tuples:                                    *)
(*   <<"undefined">>, <<"null">>, <<"num", n>>, <<"str", s>>,              *)
(*   <<"obj", fields>>  with fields a sequence of <<name, value>>.         *)
(* A Buffer holding JSON text is the sequence of its lexical tokens:       *)
(*   <<"lit","null">>, <<"num",n>>, <<"str",s>>, <<"p","{">>, ...          *)
(***************************************************************************)
EXTENDS Integers, Sequences, FiniteSets, TLC

\* Bounds of the model.
MaxPublish == 2
MaxSubscribe == 2
MaxUnsubscribe == 1
MaxRoutingSubscribe == 1
MaxRegistryPublish == 1
MaxRegistryUnsubscribe == 2
MaxForeign == 1
MaxForeignPublish == 1

\* options.topic, and the channel strings callers use.
Topic == "events"
Channels == {"", Topic, "orders"}

JUndefined == <<"undefined">>
JNull == <<"null">>
JNum(n) == <<"num", n>>
JStr(s) == <<"str", s>>
JObj(fields) == <<"obj", fields>>

\* JSON-serializable payloads handed to publish.
Payloads == {JNull, JObj(<< <<"id", JNum("42")>> >>)}

IsObj(v) == v[1] = "obj"

\* Property read v.name of a JavaScript value (the last field of that name
\* wins, a missing field and a primitive give undefined).
RECURSIVE FieldOf(_, _, _)
FieldOf(fields, name, i) ==
    IF i = 0 THEN JUndefined
    ELSE IF fields[i][1] = name THEN fields[i][2]
    ELSE FieldOf(fields, name, i - 1)

Get(v, name) == IF IsObj(v) THEN FieldOf(v[2], name, Len(v[2])) ELSE JUndefined

\* JavaScript truthiness, as `if (parsedMessage.channel)` tests it.
Truthy(v) ==
    CASE v[1] = "undefined" -> FALSE
      [] v[1] = "null" -> FALSE
      [] v[1] = "str" -> v[2] # ""
      [] v[1] = "num" -> v[2] # "0"
      [] OTHER -> TRUE

\* JSON.stringify: the token text of a value; fields holding undefined are
\* left out.
RECURSIVE Stringify(_), StringifyFields(_, _, _)
Stringify(v) ==
    CASE v[1] = "null" -> << <<"lit", "null">> >>
      [] v[1] = "num" -> << <<"num", v[2]>> >>
      [] v[1] = "str" -> << <<"str", v[2]>> >>
      [] v[1] = "obj" -> << <<"p", "{">> >> \o StringifyFields(v[2], 1, TRUE)
                            \o << <<"p", "}">> >>

StringifyFields(fields, i, first) ==
    IF i > Len(fields) THEN << >>
    ELSE IF fields[i][2][1] = "undefined" THEN StringifyFields(fields, i + 1, first)
    ELSE (IF first THEN << >> ELSE << <<"p", ",">> >>)
         \o << <<"str", fields[i][1]>>, <<"p", ":">> >>
         \o Stringify(fields[i][2])
         \o StringifyFields(fields, i + 1, FALSE)

\* serialiseMessage: Buffer.from(JSON.stringify(message)).
serialiseMessage(message) == Stringify(message)

\* JSON.parse as a recursive-descent parser over the token text.
\* ParseValue(t, i) is <<"ok", value, next>> or <<"err">>.
ParseErr == <<"err">>
IsTok(t, i, kind, text) == i <= Len(t) /\ t[i] = <<kind, text>>

RECURSIVE ParseValue(_, _), ParseMembers(_, _, _)
ParseValue(t, i) ==
    IF i > Len(t) THEN ParseErr
    ELSE CASE t[i] = <<"lit", "null">> -> <<"ok", JNull, i + 1>>
           [] t[i][1] = "num" -> <<"ok", JNum(t[i][2]), i + 1>>
           [] t[i][1] = "str" -> <<"ok", JStr(t[i][2]), i + 1>>
           [] t[i] = <<"p", "{">> ->
                IF IsTok(t, i + 1, "p", "}") THEN <<"ok", JObj(<< >>), i + 2>>
                ELSE ParseMembers(t, i + 1, << >>)
           [] OTHER -> ParseErr

ParseMembers(t, i, acc) ==
    IF ~(i + 1 <= Len(t) /\ t[i][1] = "str" /\ t[i + 1] = <<"p", ":">>)
    THEN ParseErr
    ELSE LET r == ParseValue(t, i + 2) IN
         IF r[1] = "err" THEN ParseErr
         ELSE LET fields == Append(acc, <<t[i][2], r[2]>>) IN
              IF IsTok(t, r[3], "p", "}") THEN <<"ok", JObj(fields), r[3] + 1>>
              ELSE IF IsTok(t, r[3], "p", ",") THEN ParseMembers(t, r[3] + 1, fields)
              ELSE ParseErr

\* deserialiseMessage: JSON.parse(message.toString()); SyntaxError stands
\* for the exception JSON.parse raises.
SyntaxError == <<"SyntaxError">>
deserialiseMessage(message) ==
    LET r == ParseValue(message, 1) IN
    IF r[1] = "ok" /\ r[3] = Len(message) + 1 THEN r[2] ELSE SyntaxError
IsError(v) == v[1] = "SyntaxError"
IsNull(v) == v[1] = "null"


VARIABLES
    scope,           \* what the callers of a run do: the channels and the
                     \* payloads they pass, whether a listener may raise,
                     \* how many publish, subscribe and unsubscribe calls
                     \* they make, and what other producers send to the topic
    useHeaders,      \* options.useHeaders
    topicExists,     \* whether the broker metadata lists options.topic
    producer,        \* this.producer: Uninitialized (unset), Connecting
                     \* (pending promise), Ready (fulfilled), Failed (rejected)
    consumer,        \* this.consumer, likewise
    prodConn,        \* the producer client: none, connecting, connected,
                     \* disconnecting, disconnected
    consConn,        \* the consumer client: none, connecting, consuming,
                     \* disconnecting, disconnected
    producerStarts,  \* how many times a HighLevelProducer was built and connected
    consumerStarts,  \* how many times a KafkaConsumer was built and connected
    calls,           \* the publish and subscribe calls issued so far
    ee,              \* this.ee: event name -> listeners in registration order
    subscriptions,   \* this.subscriptions: id -> channel
    subIdCounter,    \* this.subIdCounter
    subInfo,         \* per id ever issued: the listener's channel and behaviour
    received,        \* per id ever issued: the onMessage invocations so far
    topicLog,        \* the messages the broker holds for the topic
    nextOffset,      \* the offset the consume loop delivers next
    startOffset,     \* the offset the consume loop started at, 0 before it
    lastDispatch,    \* what the last run of the 'data' handler did
    closeP,          \* close(): producerPromise
    closeC,          \* close(): consumerPromise
    unsubscribes,    \* the unsubscribe calls made so far
    lastUnsubscribe  \* the last unsubscribe call: its index, whether it raised

vars == <<scope, useHeaders, topicExists, producer, consumer, prodConn, consConn,
          producerStarts, consumerStarts, calls, ee, subscriptions,
          subIdCounter, subInfo, received, topicLog, nextOffset, startOffset,
          lastDispatch,
          closeP, closeC, unsubscribes, lastUnsubscribe>>

connVars == <<producer, consumer, prodConn, consConn, producerStarts,
              consumerStarts>>
regVars == <<ee, subscriptions, subIdCounter, subInfo>>
brokerVars == <<topicLog, nextOffset, startOffset>>
closeVars == <<closeP, closeC>>
cfgVars == <<scope, useHeaders, topicExists>>
unsubVars == <<unsubscribes, lastUnsubscribe>>

Settled(h) == h \in {"Ready", "Failed"}

CallIds == 1..Len(calls)
PublishCalls == {c \in CallIds : calls[c].kind = "publish"}
SubscribeCalls == {c \in CallIds : calls[c].kind = "subscribe"}

NoDispatch == [off |-> 0, channel |-> <<"none">>, listeners |-> << >>,
               invoked |-> << >>, raised |-> FALSE]

\* constructor: no connection, an empty emitter, no subscriptions, counter 0.
Constructed ==
    /\ producer = "Uninitialized"
    /\ consumer = "Uninitialized"
    /\ prodConn = "none"
    /\ consConn = "none"
    /\ producerStarts = 0
    /\ consumerStarts = 0
    /\ calls = << >>
    /\ ee = [ch \in Channels |-> << >>]
    /\ subscriptions = << >>
    /\ subIdCounter = 0
    /\ subInfo = << >>
    /\ received = << >>
    /\ topicLog = << >>
    /\ nextOffset = 1
    /\ startOffset = 0
    /\ lastDispatch = NoDispatch
    /\ closeP = "none"
    /\ closeC = "none"
    /\ unsubscribes = 0
    /\ lastUnsubscribe = [index |-> 0, raised |-> FALSE]

\* Callers that use one channel and one payload, with listeners that return
\* normally, against a broker that may or may not know the topic.
Init ==
    /\ scope = [channels |-> {"orders"}, payloads |-> {JNull},
                throwing |-> {FALSE}, publishes |-> MaxPublish,
                subscribes |-> MaxSubscribe, unsubscribes |-> MaxUnsubscribe,
                foreign |-> {}]
    /\ useHeaders \in BOOLEAN
    /\ topicExists \in BOOLEAN
    /\ Constructed

\* Callers that use every channel and payload, with one listener that returns
\* normally, against a broker that knows the topic.
InitRouting ==
    /\ scope = [channels |-> Channels, payloads |-> Payloads,
                throwing |-> {FALSE}, publishes |-> MaxPublish,
                subscribes |-> MaxRoutingSubscribe,
                unsubscribes |-> MaxUnsubscribe, foreign |-> {}]
    /\ useHeaders \in BOOLEAN
    /\ topicExists = TRUE
    /\ Constructed

\* Callers whose listeners may raise, on two channels with one payload,
\* against a broker that knows the topic.
InitFanout ==
    /\ scope = [channels |-> {Topic, "orders"}, payloads |-> {JNull},
                throwing |-> BOOLEAN, publishes |-> MaxPublish,
                subscribes |-> MaxSubscribe, unsubscribes |-> MaxUnsubscribe,
                foreign |-> {}]
    /\ useHeaders \in BOOLEAN
    /\ topicExists = TRUE
    /\ Constructed

\* Messages that reach the topic from producers other than this engine: a
\* value that is not JSON text, a message whose headers hold no "channel"
\* entry, and a JSON object without a channel field.
Unparseable == << <<"p", "{">> >>
ForeignMessages ==
    {[value |-> Unparseable, hasHeaders |-> FALSE, headers |-> << >>,
      channel |-> Topic, payload |-> JUndefined, call |-> 0],
     [value |-> serialiseMessage(JNull), hasHeaders |-> TRUE,
      headers |-> << <<"trace", "7">> >>,
      channel |-> Topic, payload |-> JUndefined, call |-> 0],
     [value |-> serialiseMessage(JObj(<< <<"id", JNum("42")>> >>)),
      hasHeaders |-> FALSE, headers |-> << >>,
      channel |-> Topic, payload |-> JUndefined, call |-> 0]}

\* Callers on the topic's own channel and on the empty channel, with
\* listeners that return normally, on a topic that other producers write to.
InitForeign ==
    /\ scope = [channels |-> {"", Topic}, payloads |-> {JNull},
                throwing |-> {FALSE}, publishes |-> MaxForeignPublish,
                subscribes |-> MaxSubscribe, unsubscribes |-> MaxUnsubscribe,
                foreign |-> ForeignMessages]
    /\ useHeaders \in BOOLEAN
    /\ topicExists = TRUE
    /\ Constructed

\* Callers that subscribe and unsubscribe on two channels, with listeners
\* that return normally, against a broker that knows the topic.
InitRegistry ==
    /\ scope = [channels |-> {Topic, "orders"}, payloads |-> {JNull},
                throwing |-> {FALSE}, publishes |-> MaxRegistryPublish,
                subscribes |-> MaxSubscribe,
                unsubscribes |-> MaxRegistryUnsubscribe, foreign |-> {}]
    /\ useHeaders \in BOOLEAN
    /\ topicExists = TRUE
    /\ Constructed

\* Promise.all([producerPromise, consumerPromise]): rejected as soon as one
\* of the two is, resolved once both are.
closeResult ==
    IF closeP = "none" THEN "notCalled"
    ELSE IF closeP = "rejected" \/ closeC = "rejected" THEN "rejected"
    ELSE IF closeP = "resolved" /\ closeC = "resolved" THEN "resolved"
    ELSE "pending"

\* A continuation that the event loop runs before it takes the next broker
\* event: an await whose promise is already settled.
MicrotaskPending ==
    \/ \E c \in CallIds :
          \/ calls[c].pc = "awaitProducer" /\ Settled(producer)
          \/ calls[c].pc = "awaitConsumer" /\ Settled(consumer)
          \/ calls[c].pc = "noWait"
    \/ closeP = "awaitHandle" /\ Settled(producer)
    \/ closeC = "awaitHandle" /\ Settled(consumer)

UnsetWhileNotReady(handle) == handle # "Ready"

\* `if (!this.producer)` / `if (!this.consumer)`.
Unset(handle) == handle = "Uninitialized"

\* createProducer up to its first await: the first caller builds the client
\* and connects; this.producer is set before anything is awaited.
createProducer ==
    IF Unset(producer)
    THEN /\ producer' = "Connecting"
         /\ prodConn' = "connecting"
         /\ producerStarts' = producerStarts + 1
    ELSE UNCHANGED <<producer, prodConn, producerStarts>>

\* createConsumer up to its first await.  Only the caller that finds
\* this.consumer unset returns the promise that waits for it; the function
\* falls off its end for every other caller, whose await resumes at once.
createConsumer ==
    IF Unset(consumer)
    THEN /\ consumer' = "Connecting"
         /\ consConn' = "connecting"
         /\ consumerStarts' = consumerStarts + 1
    ELSE UNCHANGED <<consumer, consConn, consumerStarts>>

createConsumerAwaits == IF Unset(consumer) THEN "awaitConsumer" ELSE "noWait"

PublishConnectsBoth(channel, payload) ==
    /\ ~MicrotaskPending
    /\ Cardinality(PublishCalls) < scope.publishes
    /\ createProducer
    /\ createConsumer
    /\ calls' = Append(calls, [kind |-> "publish", channel |-> channel,
                               payload |-> payload, throws |-> FALSE,
                               pc |-> "awaitProducer", id |-> 0,
                               handle |-> "none",
                               closed |-> closeResult = "resolved"])
    /\ UNCHANGED <<cfgVars, regVars, received, brokerVars, lastDispatch,
                   closeVars, unsubVars>>

\* publish(channel, payload) up to `await this.createProducer()`.
Publish(channel, payload) ==
    /\ ~MicrotaskPending
    /\ Cardinality(PublishCalls) < scope.publishes
    /\ createProducer
    /\ calls' = Append(calls, [kind |-> "publish", channel |-> channel,
                               payload |-> payload, throws |-> FALSE,
                               pc |-> "awaitProducer", id |-> 0,
                               handle |-> "none",
                               closed |-> closeResult = "resolved"])
    /\ UNCHANGED <<cfgVars, consumer, consConn, consumerStarts, regVars,
                   received, brokerVars, lastDispatch, closeVars, unsubVars>>

\* The message publish hands to produce(): the payload itself with a channel
\* header in header mode, the {channel, payload} envelope otherwise.
kafkaPayload(channel, payload) ==
    IF useHeaders THEN payload
    ELSE JObj(<< <<"channel", JStr(channel)>>, <<"payload", payload>> >>)

WireMessage(channel, payload, c) ==
    [value |-> serialiseMessage(kafkaPayload(channel, payload)),
     hasHeaders |-> useHeaders,
     headers |-> IF useHeaders THEN << <<"channel", channel>> >> ELSE << >>,
     channel |-> channel, payload |-> payload, call |-> c]

\* publish resumed after createProducer settled: rejected with the producer's
\* failure, or produce() is called on the producer.  produce() on a client
\* that is no longer connected raises inside the promise executor, and the
\* promise publish returned is never settled.
PublishResume(c) ==
    /\ c \in PublishCalls
    /\ calls[c].pc = "awaitProducer"
    /\ Settled(producer)
    /\ calls' = [calls EXCEPT ![c].pc =
                    IF producer = "Failed" THEN "rejected"
                    ELSE IF prodConn = "disconnected" THEN "hung"
                    ELSE "awaitAck",
                 ![c].handle = producer]
    /\ UNCHANGED <<cfgVars, connVars, regVars, received, brokerVars,
                   lastDispatch, closeVars, unsubVars>>

BrokerAckAlwaysResolves(c, err) ==
    /\ ~MicrotaskPending
    /\ c \in PublishCalls
    /\ calls[c].pc = "awaitAck"
    /\ calls' = [calls EXCEPT ![c].pc = "resolved"]
    /\ topicLog' = IF err THEN topicLog
                   ELSE Append(topicLog,
                               WireMessage(calls[c].channel, calls[c].payload, c))
    /\ UNCHANGED <<cfgVars, connVars, regVars, received, nextOffset,
                   startOffset, lastDispatch, closeVars, unsubVars>>

\* The delivery report of produce(): the callback resolves or rejects the
\* publish; an acknowledged message is in the topic.
BrokerAck(c, err) ==
    /\ ~MicrotaskPending
    /\ c \in PublishCalls
    /\ calls[c].pc = "awaitAck"
    /\ calls' = [calls EXCEPT ![c].pc = IF err THEN "rejected" ELSE "resolved"]
    /\ topicLog' = IF err THEN topicLog
                   ELSE Append(topicLog,
                               WireMessage(calls[c].channel, calls[c].payload, c))
    /\ UNCHANGED <<cfgVars, connVars, regVars, received, nextOffset,
                   startOffset, lastDispatch, closeVars, unsubVars>>

\* The producer's 'ready' handler: resolve when the metadata lists the topic,
\* else disconnect and reject.
ProducerReady ==
    /\ ~MicrotaskPending
    /\ prodConn = "connecting"
    /\ IF topicExists
       THEN producer' = "Ready" /\ prodConn' = "connected"
       ELSE producer' = "Failed" /\ prodConn' = "disconnected"
    /\ UNCHANGED <<cfgVars, consumer, consConn, producerStarts, consumerStarts,
                   calls, regVars, received, brokerVars, lastDispatch,
                   closeVars, unsubVars>>

ConsumerReadyUnchecked ==
    /\ ~MicrotaskPending
    /\ consConn = "connecting"
    /\ consumer' = "Ready"
    /\ consConn' = "consuming"
    /\ nextOffset' = Len(topicLog) + 1
    /\ startOffset' = Len(topicLog) + 1
    /\ UNCHANGED <<cfgVars, producer, prodConn, producerStarts, consumerStarts,
                   calls, regVars, received, topicLog, lastDispatch, closeVars,
                   unsubVars>>

\* The consumer's 'ready' handler: subscribe to the topic, start the consume
\* loop (auto.offset.reset latest) and resolve when the metadata lists the
\* topic, else disconnect and reject.
ConsumerReady ==
    /\ ~MicrotaskPending
    /\ consConn = "connecting"
    /\ IF topicExists
       THEN /\ consumer' = "Ready"
            /\ consConn' = "consuming"
            /\ nextOffset' = Len(topicLog) + 1
            /\ startOffset' = Len(topicLog) + 1
       ELSE /\ consumer' = "Failed"
            /\ consConn' = "disconnected"
            /\ UNCHANGED <<nextOffset, startOffset>>
    /\ UNCHANGED <<cfgVars, producer, prodConn, producerStarts, consumerStarts,
                   calls, regVars, received, topicLog, lastDispatch, closeVars,
                   unsubVars>>

\* subscribe(channel, onMessage) up to `await this.createConsumer()`.
\* throws tells whether onMessage raises when it is called.
Subscribe(channel, throws) ==
    /\ ~MicrotaskPending
    /\ Cardinality(SubscribeCalls) < scope.subscribes
    /\ createConsumer
    /\ calls' = Append(calls, [kind |-> "subscribe", channel |-> channel,
                               payload |-> JUndefined, throws |-> throws,
                               pc |-> createConsumerAwaits, id |-> 0,
                               handle |-> "none",
                               closed |-> closeResult = "resolved"])
    /\ UNCHANGED <<cfgVars, producer, prodConn, producerStarts, regVars,
                   received, brokerVars, lastDispatch, closeVars, unsubVars>>

NextIdOfLiveCount == Cardinality(DOMAIN subscriptions) + 1

\* `this.subIdCounter = this.subIdCounter + 1`: the id of the next
\* subscription.
NextId == subIdCounter + 1

\* subscribe resumed: rejected with the consumer's failure when it waited for
\* one, else the listener is added to the emitter, the counter incremented
\* and the subscription stored under the new id, which is returned.
SubscribeResume(c) ==
    /\ c \in SubscribeCalls
    /\ \/ calls[c].pc = "awaitConsumer" /\ Settled(consumer)
       \/ calls[c].pc = "noWait"
    /\ IF calls[c].pc = "awaitConsumer" /\ consumer = "Failed"
       THEN /\ calls' = [calls EXCEPT ![c].pc = "rejected",
                                      ![c].handle = consumer]
            /\ UNCHANGED <<regVars, received>>
       ELSE LET id == NextId
                ch == calls[c].channel IN
            /\ ee' = [ee EXCEPT ![ch] = Append(@, id)]
            /\ subIdCounter' = id
            /\ subscriptions' = [i \in DOMAIN subscriptions \cup {id} |->
                                    IF i = id THEN ch ELSE subscriptions[i]]
            /\ subInfo' = Append(subInfo,
                                 [channel |-> ch, throws |-> calls[c].throws,
                                  issued |-> Len(calls),
                                  from |-> nextOffset])
            /\ received' = Append(received, << >>)
            /\ calls' = [calls EXCEPT ![c].pc = "resolved", ![c].id = id,
                                      ![c].handle = consumer]
    /\ UNCHANGED <<cfgVars, connVars, brokerVars, lastDispatch, closeVars,
                   unsubVars>>

\* What a listener is called with: the raw message value (a Buffer) or an
\* already parsed value.
Buf(text) == <<"buf", text>>
IsBuf(arg) == arg[1] = "buf"

internalMessageRaw(arg) == arg

\* internalMessage of subscribe: what onMessage is called with, or
\* SyntaxError when deserialiseMessage raises before onMessage is called.
\* In header mode the argument is parsed here: a Buffer gives its JSON value,
\* a number parses back to itself, any other value has no JSON text.
internalMessage(arg) ==
    IF useHeaders
    THEN IF IsBuf(arg) THEN deserialiseMessage(arg[2])
         ELSE IF arg[1] = "num" THEN arg
         ELSE SyntaxError
    ELSE arg

\* this.ee.emit(name, arg): the listeners of the event run one after the
\* other in registration order; an exception raised by one of them leaves
\* emit at once.  The result is the onMessage calls made, each <<id, value>>,
\* and whether emit raised.
RECURSIVE emit(_, _, _, _)
emit(listeners, arg, i, acc) ==
    IF i > Len(listeners) THEN acc
    ELSE LET id == listeners[i]
             v == internalMessage(arg) IN
         IF IsError(v) THEN [acc EXCEPT !.raised = TRUE]
         ELSE LET called == [acc EXCEPT !.called = Append(@, <<id, v>>)] IN
              IF subInfo[id].throws THEN [called EXCEPT !.raised = TRUE]
              ELSE emit(listeners, arg, i + 1, called)

NoEmit == [called |-> << >>, raised |-> FALSE]
Raise == [called |-> << >>, raised |-> TRUE]

\* The listeners of an event name; a name nobody subscribed to has none.
Listeners(name) ==
    IF name[1] = "str" /\ name[2] \in Channels THEN ee[name[2]] ELSE << >>

RECURSIVE FindHeader(_, _, _)
FindHeader(headers, key, i) ==
    IF i > Len(headers) THEN 0
    ELSE IF headers[i][1] = key THEN i
    ELSE FindHeader(headers, key, i + 1)

\* The event name the 'data' handler emits for a message, <<"none">> when it
\* emits nothing (a missing channel header, or an exception before emit).
onDataChannel(message) ==
    IF useHeaders /\ message.hasHeaders
    THEN LET h == FindHeader(message.headers, "channel", 1) IN
         IF h = 0 THEN <<"none">> ELSE JStr(message.headers[h][2])
    ELSE LET parsedMessage == deserialiseMessage(message.value) IN
         IF IsError(parsedMessage) \/ IsNull(parsedMessage)
         THEN <<"none">>
         ELSE IF Truthy(Get(parsedMessage, "channel"))
         THEN Get(parsedMessage, "channel")
         ELSE JStr(Topic)

\* The consumer's 'data' handler.
onData(message) ==
    IF useHeaders /\ message.hasHeaders
    THEN IF FindHeader(message.headers, "channel", 1) = 0 THEN NoEmit
         ELSE emit(Listeners(onDataChannel(message)), Buf(message.value), 1,
                   NoEmit)
    ELSE LET parsedMessage == deserialiseMessage(message.value) IN
         IF IsError(parsedMessage) \/ IsNull(parsedMessage) THEN Raise
         ELSE IF Truthy(Get(parsedMessage, "channel"))
         THEN emit(Listeners(onDataChannel(message)),
                   Get(parsedMessage, "payload"), 1, NoEmit)
         ELSE emit(Listeners(JStr(Topic)), parsedMessage, 1, NoEmit)

RECURSIVE Record(_, _, _, _)
Record(rec, called, off, i) ==
    IF i > Len(called) THEN rec
    ELSE Record([rec EXCEPT ![called[i][1]] = Append(@, <<off, called[i][2]>>)],
                called, off, i + 1)

\* The consume loop hands the next message of the topic to the 'data'
\* handler.
Deliver ==
    /\ ~MicrotaskPending
    /\ consConn = "consuming"
    /\ nextOffset <= Len(topicLog)
    /\ LET message == topicLog[nextOffset]
           r == onData(message) IN
       /\ received' = Record(received, r.called, nextOffset, 1)
       /\ lastDispatch' = [off |-> nextOffset,
                           channel |-> onDataChannel(message),
                           listeners |-> Listeners(onDataChannel(message)),
                           invoked |-> [i \in 1..Len(r.called) |-> r.called[i][1]],
                           raised |-> r.raised]
    /\ nextOffset' = nextOffset + 1
    /\ UNCHANGED <<cfgVars, connVars, calls, regVars, topicLog, startOffset,
                   closeVars, unsubVars>>

\* The messages of the topic that this engine did not produce.
ForeignOffsets == {off \in 1..Len(topicLog) : topicLog[off].call = 0}

\* Another producer's message is appended to the topic.
ForeignProduce(message) ==
    /\ ~MicrotaskPending
    /\ topicExists
    /\ Cardinality(ForeignOffsets) < MaxForeign
    /\ topicLog' = Append(topicLog, message)
    /\ UNCHANGED <<cfgVars, connVars, calls, regVars, received, nextOffset,
                   startOffset, lastDispatch, closeVars, unsubVars>>

removeListenerForgotten(listeners, id) == listeners
removeListenerAll(listeners, id) == << >>

\* EventEmitter.removeListener for a listener that was added once.
removeListener(listeners, id) == SelectSeq(listeners, LAMBDA x : x # id)

UnsubscribeSilent(index) ==
    /\ unsubscribes < scope.unsubscribes
    /\ unsubscribes' = unsubscribes + 1
    /\ lastUnsubscribe' = [index |-> index, raised |-> FALSE]
    /\ IF index \in DOMAIN subscriptions
       THEN LET channel == subscriptions[index] IN
            /\ subscriptions' = [i \in DOMAIN subscriptions \ {index} |->
                                    subscriptions[i]]
            /\ ee' = [ee EXCEPT ![channel] = removeListener(@, index)]
       ELSE UNCHANGED <<subscriptions, ee>>
    /\ UNCHANGED <<cfgVars, connVars, calls, subIdCounter, subInfo, received,
                   brokerVars, lastDispatch, closeVars>>

\* unsubscribe(index).  Destructuring this.subscriptions[index] raises a
\* TypeError for an index that is not stored, before anything is changed.
Unsubscribe(index) ==
    /\ unsubscribes < scope.unsubscribes
    /\ unsubscribes' = unsubscribes + 1
    /\ lastUnsubscribe' = [index |-> index,
                           raised |-> index \notin DOMAIN subscriptions]
    /\ IF index \in DOMAIN subscriptions
       THEN LET channel == subscriptions[index] IN
            /\ subscriptions' = [i \in DOMAIN subscriptions \ {index} |->
                                    subscriptions[i]]
            /\ ee' = [ee EXCEPT ![channel] = removeListener(@, index)]
       ELSE UNCHANGED <<subscriptions, ee>>
    /\ UNCHANGED <<cfgVars, connVars, calls, subIdCounter, subInfo, received,
                   brokerVars, lastDispatch, closeVars>>

\* One of the two promises close() builds, up to the await in its executor:
\* without a handle the executor does nothing, and nothing ever settles the
\* promise.
closeStart(handle) == IF Unset(handle) THEN "never" ELSE "awaitHandle"

\* close() up to Promise.all.
Close ==
    /\ ~MicrotaskPending
    /\ closeP = "none"
    /\ closeP' = closeStart(producer)
    /\ closeC' = closeStart(consumer)
    /\ UNCHANGED <<cfgVars, connVars, calls, regVars, received, brokerVars,
                   lastDispatch, unsubVars>>

\* The executor of producerPromise resumed after `await this.producer`:
\* disconnect is called on a ready producer; a failed producer makes the
\* await raise inside the executor, which settles nothing.
CloseProducerResume ==
    /\ closeP = "awaitHandle"
    /\ Settled(producer)
    /\ IF producer = "Ready"
       THEN closeP' = "disconnecting" /\ prodConn' = "disconnecting"
       ELSE closeP' = "never" /\ UNCHANGED prodConn
    /\ UNCHANGED <<cfgVars, producer, consumer, consConn, producerStarts,
                   consumerStarts, calls, regVars, received, brokerVars,
                   lastDispatch, closeC, unsubVars>>

CloseConsumerResume ==
    /\ closeC = "awaitHandle"
    /\ Settled(consumer)
    /\ IF consumer = "Ready"
       THEN closeC' = "disconnecting" /\ consConn' = "disconnecting"
       ELSE closeC' = "never" /\ UNCHANGED consConn
    /\ UNCHANGED <<cfgVars, producer, consumer, prodConn, producerStarts,
                   consumerStarts, calls, regVars, received, brokerVars,
                   lastDispatch, closeP, unsubVars>>

\* The callback of producer.disconnect.
ProducerDisconnected(err) ==
    /\ ~MicrotaskPending
    /\ closeP = "disconnecting"
    /\ closeP' = IF err THEN "rejected" ELSE "resolved"
    /\ prodConn' = "disconnected"
    /\ UNCHANGED <<cfgVars, producer, consumer, consConn, producerStarts,
                   consumerStarts, calls, regVars, received, brokerVars,
                   lastDispatch, closeC, unsubVars>>

\* The callback of consumer.disconnect.
ConsumerDisconnected(err) ==
    /\ ~MicrotaskPending
    /\ closeC = "disconnecting"
    /\ closeC' = IF err THEN "rejected" ELSE "resolved"
    /\ consConn' = "disconnected"
    /\ UNCHANGED <<cfgVars, producer, consumer, prodConn, producerStarts,
                   consumerStarts, calls, regVars, received, brokerVars,
                   lastDispatch, closeP, unsubVars>>

\* The steps of an engine that is not closed.
NextOpen ==
    \/ \E ch \in scope.channels, p \in scope.payloads : Publish(ch, p)
    \/ \E c \in CallIds : PublishResume(c)
    \/ \E c \in CallIds, err \in BOOLEAN : BrokerAck(c, err)
    \/ ProducerReady
    \/ ConsumerReady
    \/ \E ch \in scope.channels, t \in scope.throwing : Subscribe(ch, t)
    \/ \E c \in CallIds : SubscribeResume(c)
    \/ Deliver
    \/ \E i \in 1..(subIdCounter + 1) : Unsubscribe(i)

\* The steps of an open engine on a topic that other producers write to.
NextForeign ==
    \/ NextOpen
    \/ \E m \in scope.foreign : ForeignProduce(m)

Next ==
    \/ NextOpen
    \/ Close
    \/ CloseProducerResume
    \/ CloseConsumerResume
    \/ \E err \in BOOLEAN : ProducerDisconnected(err)
    \/ \E err \in BOOLEAN : ConsumerDisconnected(err)

\* The offsets the consume loop has handed to the 'data' handler.
Delivered == IF startOffset = 0 THEN {} ELSE startOffset..(nextOffset - 1)

\* The offsets of the onMessage calls a listener has had.
OffsetsOf(id) == {received[id][k][1] : k \in 1..Len(received[id])}

Ids == 1..subIdCounter

Spec == Init /\ [][Next]_vars
SpecRouting == InitRouting /\ [][NextOpen]_vars
SpecFanout == InitFanout /\ [][NextOpen]_vars
SpecForeign == InitForeign /\ [][NextForeign]_vars
SpecRegistry == InitRegistry /\ [][NextOpen]_vars


(***************************************************************************)
(* C1: for each direction at most one connection creation sequence is     *)
(* ever started, however many publish / subscribe calls are issued before  *)
(* the first resolves, and none is started once the handle is Ready or     *)
(* Failed: the number of clients built and connected is 0 while the handle *)
(* is unset and 1 ever after.                                              *)
(***************************************************************************)
C1_SingleCreation ==
    /\ producerStarts = (IF producer = "Uninitialized" THEN 0 ELSE 1)
    /\ consumerStarts = (IF consumer = "Uninitialized" THEN 0 ELSE 1)

\* Two publish calls and two subscribe calls have been issued while their
\* connection is still being created, each connection once.
C1_Witness ==
    /\ producer = "Connecting" /\ consumer = "Connecting"
    /\ Cardinality({c \in PublishCalls : calls[c].pc = "awaitProducer"}) >= 2
    /\ Cardinality(SubscribeCalls) >= 2
    /\ producerStarts = 1 /\ consumerStarts = 1

(***************************************************************************)
(* C2: every publish or subscribe call awaits the creation of its          *)
(* direction's connection: no publish calls produce, and no subscribe      *)
(* registers its listener or resolves with an id, while the handle is      *)
(* still Connecting.                                                       *)
(***************************************************************************)
C2_AwaitsCreation ==
    \A c \in CallIds :
        /\ calls[c].handle # "Connecting"
        /\ calls[c].pc \in {"awaitAck", "hung", "resolved"} =>
              calls[c].handle = "Ready"

(***************************************************************************)
(* C3: when the topic is absent from the broker metadata, no publish and   *)
(* no subscribe call resolves successfully, no subscription id is          *)
(* returned, and once the handle has failed every call of its direction    *)
(* is rejected.                                                            *)
(***************************************************************************)
C3_TopicAbsenceFails ==
    ~topicExists =>
        /\ \A c \in CallIds : calls[c].pc # "resolved" /\ calls[c].id = 0
        /\ subIdCounter = 0
        /\ ~MicrotaskPending =>
              /\ producer = "Failed" =>
                    \A c \in PublishCalls : calls[c].pc = "rejected"
              /\ consumer = "Failed" =>
                    \A c \in SubscribeCalls : calls[c].pc = "rejected"

(***************************************************************************)
(* C4: close() eventually settles whichever handles exist when it is       *)
(* called: while close() is pending, neither of its two promises is one    *)
(* that nothing will ever settle.                                          *)
(***************************************************************************)
C4_CloseSettles ==
    closeResult = "pending" => closeP # "never" /\ closeC # "never"

(***************************************************************************)
(* C5: when both handles exist and close() has asked both to disconnect,   *)
(* close() does not settle before both disconnects have completed, also    *)
(* when one of them reports an error.                                      *)
(***************************************************************************)
C5_CloseWaitsForBoth ==
    (closeP \in {"disconnecting", "resolved", "rejected"}
        /\ closeC \in {"disconnecting", "resolved", "rejected"}
        /\ closeResult \in {"resolved", "rejected"}) =>
    (closeP \in {"resolved", "rejected"} /\ closeC \in {"resolved", "rejected"})

(***************************************************************************)
(* C6: a listener subscribed to channel A is never called for a message    *)
(* that was published to another channel B.                                *)
(***************************************************************************)
C6_Isolation ==
    \A id \in Ids : \A off \in OffsetsOf(id) :
        topicLog[off].channel = subInfo[id].channel

(***************************************************************************)
(* C7: a message published to a channel after a subscribe to that channel  *)
(* resolved, and delivered by the broker, has called that listener exactly *)
(* once, with exactly the published payload.                               *)
(***************************************************************************)
C7_RoundTrip ==
    \A id \in DOMAIN subscriptions : \A off \in Delivered :
        (topicLog[off].channel = subInfo[id].channel
            /\ topicLog[off].call > subInfo[id].issued) =>
        /\ Cardinality({k \in 1..Len(received[id]) :
                            received[id][k][1] = off}) = 1
        /\ \A k \in 1..Len(received[id]) :
              received[id][k][1] = off =>
                  received[id][k][2] = topicLog[off].payload

(***************************************************************************)
(* C8: every listener subscribed to a channel has been called for every    *)
(* message of that channel the broker delivered after its subscribe        *)
(* resolved, in the order of delivery.                                     *)
(***************************************************************************)
C8_FanOut ==
    \A id \in DOMAIN subscriptions :
        /\ \A off \in Delivered :
              (off >= subInfo[id].from
                  /\ topicLog[off].channel = subInfo[id].channel) =>
              off \in OffsetsOf(id)
        /\ \A k \in 1..(Len(received[id]) - 1) :
              received[id][k][1] < received[id][k + 1][1]

\* The listeners a dispatch to these listeners calls.
Reached(listeners) ==
    LET r == emit(listeners, Buf(Stringify(JNull)), 1, NoEmit) IN
    {r.called[k][1] : k \in 1..Len(r.called)}

(***************************************************************************)
(* C9: once unsubscribe(id) has returned no dispatch calls that listener   *)
(* again, and the unsubscribe takes nothing away from any other listener:  *)
(* on every channel the other listeners stay registered in their order,    *)
(* and each listener a dispatch reached before the unsubscribe is still    *)
(* reached after it.                                                       *)
(***************************************************************************)
C9_Unsubscribe ==
    [][/\ \A id \in Ids :
              id \notin DOMAIN subscriptions => received'[id] = received[id]
       /\ \A id \in DOMAIN subscriptions \ DOMAIN subscriptions' :
              \A ch \in Channels :
                  /\ ee'[ch] = SelectSeq(ee[ch], LAMBDA x : x # id)
                  /\ Reached(ee[ch]) \ {id} \subseteq Reached(ee'[ch])]_vars

\* A message was dispatched to a listener of a channel after an earlier
\* listener of the same channel had been unsubscribed, which was not called.
C9_Witness ==
    \E i, j \in Ids :
        /\ i < j
        /\ i \notin DOMAIN subscriptions
        /\ subInfo[i].channel = subInfo[j].channel
        /\ lastDispatch.channel = JStr(subInfo[i].channel)
        /\ j \in {lastDispatch.invoked[k] : k \in 1..Len(lastDispatch.invoked)}
        /\ subInfo[i].from <= lastDispatch.off
        /\ lastDispatch.off \notin OffsetsOf(i)

(***************************************************************************)
(* C10: one dispatch calls every listener registered for the channel, in   *)
(* registration order, also when an earlier listener raises.               *)
(***************************************************************************)
C10_DispatchReachesAll ==
    lastDispatch.invoked = lastDispatch.listeners

\* An inbound message the 'data' handler cannot decode: in header mode one
\* without a "channel" header, in envelope mode one whose value is not JSON.
Undecodable(message) ==
    IF useHeaders
    THEN ~message.hasHeaders \/ FindHeader(message.headers, "channel", 1) = 0
    ELSE IsError(deserialiseMessage(message.value))

\* The ids subscribed to a channel from before a message on until now.
SubscribedThrough(channel, off) ==
    {id \in DOMAIN subscriptions :
        subInfo[id].channel = channel /\ subInfo[id].from <= off}

C11_NoListenerInvoked ==
    lastDispatch.off > 0 /\ Undecodable(topicLog[lastDispatch.off])
        => lastDispatch.invoked = << >>

C11_HandlerReturns ==
    lastDispatch.off > 0 /\ Undecodable(topicLog[lastDispatch.off])
        => ~lastDispatch.raised

C11_LaterDispatched ==
    \A off \in Delivered :
        topicLog[off].call # 0 /\ topicLog[off].channel # ""
            => SubscribedThrough(topicLog[off].channel, off)
                   \subseteq {id \in Ids : off \in OffsetsOf(id)}

(***************************************************************************)
(* C11: an inbound message that cannot be decoded (an unparseable value   *)
(* in envelope mode, no channel header in header mode) is dropped: no     *)
(* listener is invoked for it, the 'data' handler does not raise, and     *)
(* every later well-formed message still reaches its listeners.           *)
(***************************************************************************)
C11_UndecodableDropped ==
    /\ C11_NoListenerInvoked
    /\ C11_HandlerReturns
    /\ C11_LaterDispatched

\* The ids subscribe calls have returned so far.
ReturnedIds == {calls[c].id : c \in {d \in SubscribeCalls : calls[d].id # 0}}

(***************************************************************************)
(* C12: subscription ids are 1, 2, 3, ... in registration order: each     *)
(* registration returns the counter's next value, greater than every id   *)
(* returned before; a returned id never changes and is never handed out   *)
(* again, also after an unsubscribe and with subscribes in flight.        *)
(***************************************************************************)
C12_IdsSequential ==
    [][/\ subIdCounter' \in {subIdCounter, subIdCounter + 1}
       /\ \A c \in SubscribeCalls :
            IF calls[c].id # 0
            THEN calls'[c].id = calls[c].id
            ELSE calls'[c].id # 0
                     => /\ calls'[c].id = subIdCounter + 1
                        /\ subIdCounter' = subIdCounter + 1
                        /\ \A i \in ReturnedIds : i < calls'[c].id
       /\ subIdCounter' = subIdCounter + 1
            => \E c \in SubscribeCalls : calls[c].id = 0 /\ calls'[c].id # 0
       /\ ReturnedIds' = 1..subIdCounter']_vars

\* Two subscribe calls that were both in flight when the first of them
\* registered have the ids 1 and 2, and id 1 has been unsubscribed.
C12_Witness ==
    /\ ReturnedIds = {1, 2}
    /\ DOMAIN subscriptions = {2}
    /\ {1, 2} \subseteq SubscribeCalls
    /\ subInfo[1].issued = 2
    /\ lastUnsubscribe.index = 1 /\ ~lastUnsubscribe.raised
    /\ unsubscribes = 1
    /\ Len(received) = 2

\* Every delivered message has reached the listeners subscribed to its
\* channel from before it on until now.
C13_KeepsReceiving ==
    \A off \in Delivered :
        SubscribedThrough(topicLog[off].channel, off)
            \subseteq {id \in Ids : off \in OffsetsOf(id)}

(***************************************************************************)
(* C13: unsubscribe with an id that is not in the registry (never issued, *)
(* or already unsubscribed) raises to its caller and changes nothing in   *)
(* the registry; the subscriptions that exist keep receiving their        *)
(* channel's messages.                                                    *)
(***************************************************************************)
C13_UnknownIdRaises ==
    [][unsubscribes' = unsubscribes + 1
           /\ lastUnsubscribe'.index \notin DOMAIN subscriptions
       => /\ lastUnsubscribe'.raised
          /\ UNCHANGED <<ee, subscriptions, subIdCounter>>
          /\ C13_KeepsReceiving']_vars

\* The second unsubscribe of id 1 has raised, and the other subscriber of
\* the same channel has received the message delivered last.
C13_Witness ==
    /\ unsubscribes = 2
    /\ lastUnsubscribe = [index |-> 1, raised |-> TRUE]
    /\ DOMAIN subscriptions = {2}
    /\ subInfo[1].channel = subInfo[2].channel
    /\ lastDispatch.off > 0
    /\ lastDispatch.invoked = <<2>>
    /\ nextOffset = Len(topicLog) + 1

\* The decoded value of the message dispatched last.
LastParsed == deserialiseMessage(topicLog[lastDispatch.off].value)

\* `"channel" in value` for a decoded value.
HasChannelField(v) == IsObj(v) /\ Get(v, "channel")[1] # "undefined"

\* What the listeners invoked by the last dispatch were called with.
LastArguments ==
    {received[lastDispatch.invoked[k]][Len(received[lastDispatch.invoked[k]])] :
        k \in 1..Len(lastDispatch.invoked)}

C14_FallbackToTopic ==
    ~useHeaders /\ lastDispatch.off > 0 /\ IsObj(LastParsed)
        /\ ~HasChannelField(LastParsed)
    => /\ lastDispatch.channel[1] = "str"
       /\ lastDispatch.channel[2] = Topic
       /\ lastDispatch.invoked = lastDispatch.listeners
       /\ \A a \in LastArguments : a = <<lastDispatch.off, LastParsed>>

C14_ChannelFieldRoutes ==
    ~useHeaders /\ lastDispatch.off > 0 /\ HasChannelField(LastParsed)
        /\ Get(LastParsed, "channel")[1] = "str"
    => /\ lastDispatch.channel[1] = "str"
       /\ lastDispatch.channel[2] = Get(LastParsed, "channel")[2]
       /\ \A a \in LastArguments :
            a = <<lastDispatch.off, Get(LastParsed, "payload")>>

(***************************************************************************)
(* C14: in envelope mode a message whose decoded value has no channel     *)
(* field goes to exactly the listeners of the channel named like the      *)
(* topic, with the whole decoded value as payload; a message that has a   *)
(* channel field is never dispatched that way: it goes to the listeners   *)
(* of its channel field with its payload field.                           *)
(***************************************************************************)
C14_EnvelopeFallback ==
    /\ C14_FallbackToTopic
    /\ C14_ChannelFieldRoutes

(***************************************************************************)
(* C15: a publish resolves only once the broker has acknowledged the      *)
(* message of that call, and is rejected when the broker reports the send *)
(* as failed.  The delivery report of one call settles that call only:    *)
(* every other publish is untouched, and the producer handle stays Ready. *)
(***************************************************************************)
C15_SettledByOwnAck ==
    [][\A c \in PublishCalls :
          /\ calls'[c].pc = "resolved"
                => \E off \in 1..Len(topicLog') : topicLog'[off].call = c
          /\ calls[c].pc = "awaitAck" /\ calls'[c].pc # "awaitAck"
                => /\ calls'[c].pc \in {"resolved", "rejected"}
                   /\ calls'[c].pc = "rejected"
                         <=> \A off \in 1..Len(topicLog') :
                                 topicLog'[off].call # c
                   /\ \A d \in CallIds \ {c} : calls'[d] = calls[d]
                   /\ producer = "Ready" /\ producer' = "Ready"]_vars

\* One publish was rejected by its delivery report, another one resolved
\* by its own, on a producer that is still Ready.
C15_Witness ==
    /\ producer = "Ready"
    /\ \E c, d \in PublishCalls :
          /\ calls[c].pc = "rejected" /\ calls[c].handle = "Ready"
          /\ calls[d].pc = "resolved"
          /\ \E off \in 1..Len(topicLog) : topicLog[off].call = d
          /\ \A off \in 1..Len(topicLog) : topicLog[off].call # c

(***************************************************************************)
(* C16: once close() has resolved, every further publish and subscribe is *)
(* rejected as made on a closed engine: no message is handed to the       *)
(* disconnected producer and no listener is registered.                   *)
(***************************************************************************)
C16_ClosedEngineRejects ==
    \A c \in CallIds :
        calls[c].closed
            => /\ calls[c].pc \in {"awaitProducer", "awaitConsumer", "noWait",
                                   "rejected"}
               /\ calls[c].id = 0

(***************************************************************************)
(* C17: a connection handle is Ready only after the client's ready signal *)
(* when the metadata lists the topic; the consumer subscribes to the      *)
(* topic and starts its consume loop only then.  When the topic is        *)
(* absent the connection is disconnected by the time the handle is        *)
(* Failed, the consume loop is never started and no inbound message is    *)
(* ever dispatched.                                                       *)
(***************************************************************************)
C17_ReadyOnlyWithTopic ==
    /\ producer = "Ready"
          => topicExists /\ prodConn \in {"connected", "disconnecting",
                                           "disconnected"}
    /\ consumer = "Ready"
          => topicExists /\ startOffset > 0
                /\ consConn \in {"consuming", "disconnecting", "disconnected"}
    /\ producer = "Connecting" <=> prodConn = "connecting"
    /\ consumer = "Connecting" <=> consConn = "connecting"
    /\ consumer # "Ready" => startOffset = 0 /\ consConn # "consuming"
    /\ producer = "Failed" => ~topicExists /\ prodConn = "disconnected"
    /\ consumer = "Failed" => ~topicExists /\ consConn = "disconnected"
    /\ ~topicExists
          => /\ startOffset = 0
             /\ lastDispatch = NoDispatch
             /\ \A id \in Ids : received[id] = << >>

\* With the topic absent both handles have failed with their connections
\* disconnected, while a listener is registered that has been called with
\* nothing.
C17_Witness ==
    /\ ~topicExists
    /\ producer = "Failed" /\ prodConn = "disconnected"
    /\ consumer = "Failed" /\ consConn = "disconnected"
    /\ subIdCounter > 0
    /\ \A id \in Ids : received[id] = << >>

(***************************************************************************)
(* C18: in header mode the listener is handed the raw, undecoded bytes of *)
(* the message value (nothing is deserialized before the listener is      *)
(* called); in envelope mode it is handed the parsed payload.             *)
(***************************************************************************)
C18_HeaderModeRawBytes ==
    \A id \in Ids : \A k \in 1..Len(received[id]) :
        LET off == received[id][k][1]
            v == received[id][k][2] IN
        IF useHeaders
        THEN IsBuf(v) /\ v[2] = topicLog[off].value
        ELSE ~IsBuf(v)

(***************************************************************************)
(* C18, amended: in header mode the 'data' handler emits the message      *)
(* value undecoded, and the wrapper subscribe registers deserializes it   *)
(* before it calls the listener: the listener is handed the parsed        *)
(* payload, never the raw bytes.  In envelope mode the listener is handed *)
(* a parsed value: the payload field of the decoded envelope, or the      *)
(* whole decoded value when the message took the fallback.                *)
(***************************************************************************)
C18_ListenerGetsParsed ==
    \A id \in Ids : \A k \in 1..Len(received[id]) :
        LET off == received[id][k][1]
            v == received[id][k][2]
            parsed == deserialiseMessage(topicLog[off].value) IN
        /\ ~IsBuf(v)
        /\ ~IsError(parsed)
        /\ IF useHeaders
           THEN v = parsed /\ v = topicLog[off].payload
           ELSE IF Truthy(Get(parsed, "channel"))
           THEN v = Get(parsed, "payload") /\ v = topicLog[off].payload
           ELSE v = parsed

\* A header-mode listener has been called with the parsed object that was
\* published.
C18_Witness ==
    /\ useHeaders
    /\ \E id \in Ids : \E k \in 1..Len(received[id]) :
          /\ IsObj(received[id][k][2])
          /\ received[id][k][2] = topicLog[received[id][k][1]].payload

\* The calls of a kind that a step issues or moves on.
Stepped(kind) ==
    {c \in DOMAIN calls' :
        calls'[c].kind = kind /\ (c \in DOMAIN calls => calls'[c] # calls[c])}

(***************************************************************************)
(* C19: connections are created lazily and per direction.  No producer    *)
(* creation is started before the first publish, no consumer creation     *)
(* before the first subscribe; a step of publish leaves the consumer      *)
(* handle and its connection as they are, a step of subscribe the         *)
(* producer's, and unsubscribe both.                                      *)
(***************************************************************************)
C19_LazyPerDirection ==
    [][/\ PublishCalls' = {}
            => producer' = "Uninitialized" /\ prodConn' = "none"
                  /\ producerStarts' = 0
       /\ SubscribeCalls' = {}
            => consumer' = "Uninitialized" /\ consConn' = "none"
                  /\ consumerStarts' = 0
       /\ Stepped("publish") # {}
            => UNCHANGED <<consumer, consConn, consumerStarts>>
       /\ Stepped("subscribe") # {}
            => UNCHANGED <<producer, prodConn, producerStarts>>
       /\ unsubscribes' # unsubscribes => UNCHANGED connVars]_vars

\* A publish has resolved on a Ready producer and an unsubscribe has been
\* made, with no subscribe yet: the consumer has never been created.
C19_Witness ==
    /\ SubscribeCalls = {}
    /\ \E c \in PublishCalls : calls[c].pc = "resolved"
    /\ producer = "Ready" /\ producerStarts = 1
    /\ unsubscribes = 1
    /\ consumer = "Uninitialized" /\ consConn = "none" /\ consumerStarts = 0

\* The listeners registered on a channel, as a set.
Registered(ch) == {ee[ch][k] : k \in 1..Len(ee[ch])}

\* The number of registrations in the emitter.
RECURSIVE Registrations(_)
Registrations(chs) ==
    IF chs = {} THEN 0
    ELSE LET ch == CHOOSE x \in chs : TRUE IN
         Len(ee[ch]) + Registrations(chs \ {ch})

C20_Agree ==
    \A ch \in Channels :
        /\ Cardinality(Registered(ch)) = Len(ee[ch])
        /\ Registered(ch) = {id \in DOMAIN subscriptions : subscriptions[id] = ch}

(***************************************************************************)
(* C20: after any sequence of subscribe and unsubscribe calls, failing    *)
(* ones and several subscriptions of one channel included, the id index   *)
(* and the emitter agree: each id of the index has exactly one listener,  *)
(* registered on that id's channel, every registered listener belongs to  *)
(* exactly one id of the index, and unsubscribe(id) removes exactly that  *)
(* one registration.                                                      *)
(***************************************************************************)
C20_IndexMatchesEmitter ==
    [][/\ C20_Agree'
       /\ unsubscribes' # unsubscribes /\ ~lastUnsubscribe'.raised
            => \E id \in DOMAIN subscriptions, ch \in Channels :
                  /\ lastUnsubscribe'.index = id
                  /\ subscriptions[id] = ch
                  /\ DOMAIN subscriptions' = DOMAIN subscriptions \ {id}
                  /\ Registered(ch)' = Registered(ch) \ {id}
                  /\ Registrations(Channels)' = Registrations(Channels) - 1
                  /\ \A other \in Channels \ {ch} :
                        ee'[other] = ee[other]]_vars

\* Two subscriptions of one channel; after an unsubscribe that failed and
\* the unsubscribe of id 2, exactly the registration of id 1 is left.
C20_Witness ==
    /\ subIdCounter = 2
    /\ subInfo[1].channel = subInfo[2].channel
    /\ unsubscribes = 2
    /\ lastUnsubscribe = [index |-> 2, raised |-> FALSE]
    /\ DOMAIN subscriptions = {1}
    /\ ee[subInfo[1].channel] = <<1>>

====
